---- MODULE Spec2Model ----
(***************************************************************************)
(* The research-session pipeline of Advista_api: the start_research        *)
(* handler (src/src/controllers/research_controller.py), the session store *)
(* it writes through (research_session_service.py and                      *)
(* research_session_repository.py), the searches it dispatches inline or   *)
(* through the Celery worker, and the stages that follow.                  *)
(*                                                                         *)
(* One request is followed from its arrival to its HTTP response.  The     *)
(* collaborators (planner LLM, search provider, task queue, video unit,    *)
(* database) answer nondeterministically with every outcome their          *)
(* interface allows.  Debug file dumps are off (ENABLE_DEBUG_FILES         *)
(* defaults to false, research_controller.py:22).                          *)
(***************************************************************************)
EXTENDS Integers, Sequences, FiniteSets, TLC

VARIABLES
    pc,                 \* position of the handler in start_research
    ENABLE_CELERY,      \* settings.ENABLE_CELERY, the dispatch mode
    brief,              \* request.research_brief: which fields are filled
    session,            \* the ResearchSession row, or NoSession
    now,                \* datetime.utcnow(): the store's clock
    query_mapping,      \* category -> query text, "" when empty
    query_task_ids,     \* queued mode: category -> task id
    pending_tasks,      \* queued mode: categories still polled
    elapsed_time,       \* queued mode: seconds slept so far
    task,               \* per category: the search execution and its outcome
    successful_results, \* key -> result entry
    processed_results,  \* ProcessedSearchResults, <<>> before Normalize
    research_report,    \* ResearchReport, <<>> before Synthesize
    key_cycle,          \* _groq_key_cycle: index of the key next() returns
    llm_keys,           \* history: the key of each LLM call of the process
    synth,              \* the synthesize_all calls in progress, per pipeline
    unit,               \* a unit called on its own: its argument and results
    exc,                \* str(e) of the exception that reached the handler
    response,           \* the HTTP response of the request
    hist                \* history: writes and stage events in program order

cfgVars == <<ENABLE_CELERY, brief>>
synthVars == <<processed_results, research_report>>
llmVars == <<key_cycle, llm_keys, synth>>

vars == <<pc, ENABLE_CELERY, brief, session, now, query_mapping, query_task_ids,
          pending_tasks, elapsed_time, task, successful_results,
          processed_results, research_report, key_cycle, llm_keys, synth,
          unit, exc, response, hist>>

----------------------------------------------------------------------------
(* Bounds and program constants *)

\* The planner may fill any of the five queries; the model explores the query
\* maps with at most MaxQueries non-empty entries.
MaxQueries == 2

\* The calls made directly on the session store are explored while the
\* store's clock is below MaxClock.
MaxClock == 5

max_wait_time == 60
poll_interval == 2

Categories == {"product", "competitor", "audience", "campaign", "platform"}

Statuses == {"pending", "researching", "processing", "synthesizing",
             "completed", "failed"}

\* None / SQL NULL is the empty tuple, a present value v is <<v>>.
Null == <<>>
Some(v) == <<v>>

----------------------------------------------------------------------------
(* The research brief *)

BriefFields == {"product_name", "target_audience", "campaign_goals",
                "budget_range", "competitor_names", "preferred_platforms",
                "tone_and_style"}

\* A brief is abstracted to the truthiness of each field is_complete reads.
AllBriefs == [BriefFields -> BOOLEAN]

CoreFields == {"product_name", "target_audience", "campaign_goals", "budget_range"}

is_completeTwoCore(b) ==
    Cardinality({f \in CoreFields : b[f]}) >= 2
    /\ (b["competitor_names"] \/ b["preferred_platforms"] \/ b["tone_and_style"])

\* ResearchBrief.is_complete, research_brief.py:58-70
is_complete(b) ==
    LET has_core == Cardinality({f \in CoreFields : b[f]}) >= 3
        has_additional == b["competitor_names"] \/ b["preferred_platforms"]
                          \/ b["tone_and_style"]
    IN  has_core /\ has_additional

FullBrief == [f \in BriefFields |-> TRUE]
CoreOnlyBrief == [f \in BriefFields |-> f \in CoreFields]

\* The briefs a request of the pipeline specification carries: the full one,
\* those with exactly two core fields, and those with no additional field.
Briefs ==
    {FullBrief}
    \cup {b \in AllBriefs : Cardinality({f \in CoreFields : b[f]}) = 2}
    \cup {b \in AllBriefs : \A f \in BriefFields \ CoreFields : ~b[f]}

----------------------------------------------------------------------------
(* The session store *)

\* no unit is being called on its own
NoUnit == [fn |-> "none", arg |-> Null, ret |-> <<>>]

NoSession == [exists |-> FALSE, status |-> "none", meta |-> Null,
              completedAt |-> Null, updatedAt |-> Null, taskIds |-> Null,
              searchResults |-> Null, processedResults |-> Null,
              report |-> Null, resourcesUsed |-> Null]

\* ResearchSessionRepository.create through ResearchSessionService.create_session.
\* The columns create does not name are NULL; resourcesUsed is the column
\* research_controller.py:405 reads, which no repository method writes.
RepoCreate(task_ids) ==
    [exists |-> TRUE, status |-> "pending", meta |-> Null,
     completedAt |-> Null, updatedAt |-> Null, taskIds |-> Some(task_ids),
     searchResults |-> Null, processedResults |-> Null,
     report |-> Null, resourcesUsed |-> Null]

\* ResearchSessionRepository.update_status at time t: the row's status is
\* overwritten with the requested one and updatedAt with the clock; meta and
\* completedAt are written only when the argument is truthy.  error_message
\* "" stands for None (both are falsy), completed_at Null for None.
RepoUpdateStatus(s, status, error_message, completed_at, t) ==
    [s EXCEPT !.status = status,
              !.updatedAt = Some(t),
              !.meta = IF error_message # "" THEN Some(error_message) ELSE @,
              !.completedAt = IF completed_at # Null THEN completed_at ELSE @]

update_statusAlwaysStamps(s, status, error_message, t) ==
    RepoUpdateStatus(s, status, error_message, Some(t), t)

\* ResearchSessionService.update_status at time t
update_status(s, status, error_message, t) ==
    RepoUpdateStatus(s, status, error_message,
                     IF status = "completed" THEN Some(t) ELSE Null, t)

save_search_resultsAppends(s, v, t) ==
    [s EXCEPT !.searchResults = Some(<<@, v>>), !.updatedAt = Some(t)]

save_search_results(s, v, t) ==
    [s EXCEPT !.searchResults = Some(v), !.updatedAt = Some(t)]

save_processed_resultsSkipped(s, v, t) == s

save_processed_results(s, v, t) ==
    [s EXCEPT !.processedResults = Some(v), !.updatedAt = Some(t)]
save_report(s, v, t) ==
    [s EXCEPT !.report = Some(v), !.updatedAt = Some(t)]
save_task_idsSkipped(s, v, t) == s
save_task_ids(s, v, t) ==
    [s EXCEPT !.taskIds = Some(v), !.updatedAt = Some(t)]

----------------------------------------------------------------------------
(* Search executions and their results *)

\* The query text planned for category c is named after c; "" is the empty query.
QueryOf(c) == c

\* SerpApiService.search returns this wrapper whatever the provider answered:
\* results is the provider's JSON, "payload" for a search result and
\* "error_payload" for a provider answer of the form {"error": ...}.
SearchWrapper(c, results) == [query_type |-> c, query |-> QueryOf(c), results |-> results]

\* worker.tasks.serpapi_search turns an exception of the search into this
\* dict and returns it as the task's result.
WorkerError(c) == [error |-> "exception", query |-> QueryOf(c), type |-> c]

ProviderAnswers == {"payload", "error_payload"}

\* research_controller.py:128-134, with the default of .get at lines 156, 202
ENGINE_FOR_QUERY_TYPE(c) ==
    IF c \in {"audience", "competitor"} THEN "google_forums" ELSE "google"

\* the engine SerpApiService.search uses when the caller passes none
\* (serpapi_service.py:20), as worker.tasks.serpapi_search does (tasks.py:22)
default_engine == "google"

\* The engine an outcome of a Celery task was searched with: none when the
\* task failed before its body ran.
WorkerEngine(o) == IF o.state = "SUCCESS" THEN default_engine ELSE "none"

NoTask == [state |-> "NONE", result |-> Null]
PendingTask == [state |-> "PENDING", result |-> Null]
FailedTask == [state |-> "FAILURE", result |-> Null]
SucceededTask(r) == [state |-> "SUCCESS", result |-> Some(r)]

\* The outcomes of one inline search: run_serp_search_async returns the
\* wrapper or raises (asyncio.gather hands the exception back as a value).
InlineOutcomes(c) ==
    {SucceededTask(SearchWrapper(c, a)) : a \in ProviderAnswers} \cup {FailedTask}

\* The outcomes of one Celery task: its return value (the wrapper, or the
\* worker's error dict) or a task failure.  send_task passes three
\* positional arguments (research_controller.py:157) to a task that takes two
\* (worker/tasks.py:17); with the worker of this tree every task is a failure,
\* with a worker that takes the engine the other outcomes are there too.
WorkerOutcomes(c) ==
    {SucceededTask(SearchWrapper(c, a)) : a \in ProviderAnswers}
        \cup {SucceededTask(WorkerError(c)), FailedTask}

\* a dict d with d[k] = v added (or overwritten)
Put(d, k, v) == [x \in DOMAIN d \cup {k} |-> IF x = k THEN v ELSE d[x]]

EmptyDict == [x \in {} |-> Null]

NonEmptyAll(qm) == Categories

\* query_type of the non-empty queries, research_controller.py:153 and :202
NonEmpty(qm) == {c \in Categories : qm[c] # ""}

\* result.ready() and result.successful() of celery's AsyncResult
ready(t) == t.state \in {"SUCCESS", "FAILURE"}
successful(t) == t.state = "SUCCESS"

LoopCondNoTimeout(pending, elapsed) == pending # {}

\* while pending_tasks and elapsed_time < max_wait_time
LoopCond(pending, elapsed) == pending # {} /\ elapsed < max_wait_time

PollResultsAnyReady(results, pending, t) ==
    [k \in DOMAIN results \cup {c \in pending : ready(t[c])} |->
        IF k \in pending /\ ready(t[k])
        THEN (IF successful(t[k]) THEN t[k].result[1] ELSE [error |-> "task failed"])
        ELSE results[k]]

\* One pass of `for query_type in list(pending_tasks)`, lines 179-190: the
\* results dict after the pass.
PollResults(results, pending, t) ==
    [k \in DOMAIN results \cup {c \in pending : ready(t[c]) /\ successful(t[c])} |->
        IF k \in pending /\ ready(t[k]) /\ successful(t[k])
        THEN t[k].result[1] ELSE results[k]]

\* pending_tasks after the pass: every ready task is discarded.
PollPending(pending, t) == pending \ {c \in pending : ready(t[c])}

InlineKeptAbortOnFailure(t) ==
    IF \E c \in Categories : t[c].state = "FAILURE" THEN {}
    ELSE {c \in Categories : t[c].state = "SUCCESS"}

\* The loop over the gathered results, lines 214-226.
InlineKept(t) ==
    {c \in Categories : t[c].state = "SUCCESS" /\ "error" \notin DOMAIN t[c].result[1]}

InlineResults(t) ==
    [c \in InlineKept(t) |-> [query |-> t[c].result[1].query,
                              results |-> t[c].result[1].results]]

GatherFirstCompleted(t, started) == \E c \in started : t[c].state # "PENDING"

\* asyncio.gather(*tasks, return_exceptions=True) returns when every task has.
GatherDone(t, started) == \A c \in started : t[c].state # "PENDING"

----------------------------------------------------------------------------
(* The synthesis service *)

\* _groq_keys, synthesis_service.py:15
groq_keys == <<"GROQ_API_KEY3", "GROQ_API_KEY4", "GROQ_API_KEY5">>

get_next_groq_keyOnSuccess(pos, resp) ==
    [key |-> groq_keys[pos + 1],
     cycle |-> IF resp = "raises" THEN pos ELSE (pos + 1) % Len(groq_keys)]

\* get_next_groq_key through _get_llm: next(_groq_key_cycle) with the cycle at
\* index pos; the call is made before the LLM is invoked, whatever the
\* response resp turns out to be.
get_next_groq_key(pos, resp) ==
    [key |-> groq_keys[pos + 1], cycle |-> (pos + 1) % Len(groq_keys)]

RECURSIVE KeysFrom(_, _)
\* the keys of n successive calls of _get_llm
KeysFrom(pos, n) ==
    IF n = 0 THEN <<>>
    ELSE <<get_next_groq_key(pos, "any").key>>
            \o KeysFrom(get_next_groq_key(pos, "any").cycle, n - 1)

RECURSIVE CycleAfter(_, _)
CycleAfter(pos, n) ==
    IF n = 0 THEN pos ELSE CycleAfter(get_next_groq_key(pos, "any").cycle, n - 1)

\* What an LLM call can give: text that is the JSON asked for, text that is
\* not JSON, JSON that does not fit the schema, or an exception.
LLMResponses == {"valid_json", "malformed_json", "schema_mismatch", "raises"}

\* The order in which synthesize_all looks at the insights, lines 147-170.
CategoryOrder == <<"product", "competitor", "audience", "campaign", "platform">>

IsPopulatedAlways(ins, c) == TRUE

\* `if processed_results.<category>_insights:` (lines 140-157): the insight
\* of the category is there
IsPopulated(ins, c) == c \in ins

\* The LLM calls of synthesize_all for the populated insights ins, in order.
CallList(ins) ==
    SelectSeq(CategoryOrder, LAMBDA c : IsPopulated(ins, c))
        \o <<"executive_summary", "action_items">>

\* The responses explored for a call: the summary is returned as text
\* whatever it holds, so its malformed responses are left out.
ResponsesOf(call) ==
    IF call = "executive_summary" THEN {"valid_json", "raises"}
    ELSE IF call = "action_items" THEN {"valid_json", "malformed_json", "raises"}
    ELSE LLMResponses

ResponseMaps(ins) ==
    {r \in [{CallList(ins)[k] : k \in 1..Len(CallList(ins))} -> LLMResponses] :
        \A call \in DOMAIN r : r[call] \in ResponsesOf(call)}

parse_responseRaises(content) ==
    IF content = "valid_json" THEN "parsed" ELSE "raised"

\* SynthesisService._parse_response: model_class(**data), or model_class()
\* when json.loads or the model's validation raised.
parse_response(content) ==
    IF content = "valid_json" THEN "parsed" ELSE "default"

\* synthesize_product and its four siblings: what the try block returns, or
\* the object of the except branch when the call or the parsing raised.
SectionResult(resp) ==
    LET tried == IF resp = "raises" THEN "raised" ELSE parse_response(resp)
    IN  IF tried = "raised" THEN "error_summary" ELSE tried

\* _generate_executive_summary, lines 408-416
ExecutiveSummary(resp) == IF resp = "raises" THEN "fallback" ELSE "text"

\* _generate_action_items with _parse_json_list, lines 457-465 and 550-570
ActionItems(resp) ==
    CASE resp = "raises" -> "fallback"
      [] resp = "valid_json" -> "parsed"
      [] OTHER -> "empty"

CallResult(call, resp) ==
    CASE call = "executive_summary" -> ExecutiveSummary(resp)
      [] call = "action_items" -> ActionItems(resp)
      [] OTHER -> SectionResult(resp)

\* The ResearchReport synthesize_all returns for the populated insights ins
\* when the LLM answers call c with resp[c].
synthesize_all(ins, resp) ==
    [analysis |-> [c \in {d \in Categories : IsPopulated(ins, d)} |->
                      CallResult(c, resp[c])],
     executive_summary |-> CallResult("executive_summary", resp["executive_summary"]),
     action_items |-> CallResult("action_items", resp["action_items"])]

\* The pipelines that share one process, and the populated insights each
\* may have been handed: A one or two categories, B one.
Pipelines == {"A", "B"}
SynthInputs ==
    {f \in [Pipelines -> {{"product"}, {"product", "audience"}}] :
        f["B"] = {"product"}}

NoSynth == [i \in Pipelines |-> [insights |-> {}, calls |-> <<>>, state |-> "idle"]]

----------------------------------------------------------------------------
(* History *)

NoHist == [statusLog |-> <<>>, stageLog |-> <<>>,
           storeFailed |-> FALSE, handlerFailed |-> FALSE,
           wasCompleted |-> FALSE, youtube |-> "none",
           call |-> Null, repeated |-> FALSE,
           engine |-> [c \in Categories |-> "none"]]

LogStatus(h, st) == [h EXCEPT !.statusLog = Append(@, st),
                              !.wasCompleted = @ \/ st = "completed"]
LogStage(h, ev) == [h EXCEPT !.stageLog = Append(@, ev)]

\* a call made directly on the store, and whether it repeats the one before
LogCall(h, c) == [h EXCEPT !.call = Some(c), !.repeated = (h.call = Some(c))]

----------------------------------------------------------------------------
(* start_research *)

Init ==
    /\ pc = "start"
    /\ ENABLE_CELERY \in BOOLEAN
    /\ brief \in Briefs
    /\ session = NoSession
    /\ now = 1
    /\ query_mapping = [c \in Categories |-> ""]
    /\ query_task_ids = EmptyDict
    /\ pending_tasks = {}
    /\ elapsed_time = 0
    /\ task = [c \in Categories |-> NoTask]
    /\ successful_results = EmptyDict
    /\ processed_results = Null
    /\ research_report = Null
    /\ key_cycle = 0
    /\ llm_keys = <<>>
    /\ synth = NoSynth
    /\ exc = ""
    /\ response = "none"
    /\ unit = NoUnit
    /\ hist = NoHist

\* raise ... inside the try block: control goes to the handler at line 347,
\* which works with str(e)
Raise(e) == pc' = "handler" /\ exc' = e

\* str(HTTPException(status_code, detail)): "<status_code>: <detail>" with a
\* Starlette that defines __str__, "" with one that does not.
HTTPExceptionStr(text) == {text, ""}

StageStatusSwapped(step) ==
    CASE step = "set_researching" -> "researching"
      [] step = "set_processing" -> "synthesizing"
      [] step = "set_synthesizing" -> "processing"

\* The status each step of the pipeline asks the store to write
\* (lines 147/196, 278 and 305).
StageStatus(step) ==
    CASE step = "set_researching" -> "researching"
      [] step = "set_processing" -> "processing"
      [] step = "set_synthesizing" -> "synthesizing"

\* lines 93-98
Validate ==
    /\ pc = "start"
    /\ IF is_complete(brief)
       THEN pc' = "create" /\ exc' = exc
       ELSE \E e \in HTTPExceptionStr("400: Research brief is incomplete") : Raise(e)
    /\ UNCHANGED <<cfgVars, unit, llmVars, now, session, query_mapping, query_task_ids,
                   pending_tasks, elapsed_time, task, successful_results,
                   synthVars, response, hist>>

\* lines 104-110
CreateSession ==
    /\ pc = "create"
    /\ session' = RepoCreate(EmptyDict)
    /\ hist' = LogStatus(hist, "pending")
    /\ pc' = "plan"
    /\ now' = now + 1
    /\ UNCHANGED <<cfgVars, unit, llmVars, query_mapping, query_task_ids,
                   pending_tasks, elapsed_time, task, successful_results,
                   synthVars, exc, response>>

\* The query maps create_research_query can return: the LLM's SearchParams,
\* or SearchParams() with every query empty when the LLM call failed
\* (research_service.py:70-76).
QueryMaps ==
    {[c \in Categories |-> IF c \in S THEN QueryOf(c) ELSE ""] :
        S \in {T \in SUBSET Categories : Cardinality(T) <= MaxQueries}}

\* lines 113-125, the planner returns
PlanReturns ==
    /\ pc = "plan"
    /\ \E qm \in QueryMaps : query_mapping' = qm
    /\ hist' = LogStage(hist, "plan")
    /\ pc' = "set_researching"
    /\ UNCHANGED <<cfgVars, unit, llmVars, now, session, query_task_ids,
                   pending_tasks, elapsed_time, task, successful_results,
                   synthVars, exc, response>>

\* lines 113-116, the call raises.  The call passes threadId=, which the
\* signature at research_service.py:33 does not take, so this is the outcome
\* of the call as written (TypeError); PlanReturns is the planner's own body.
PlanRaises ==
    /\ pc = "plan"
    /\ Raise("create_research_query() got an unexpected keyword argument 'threadId'")
    /\ hist' = LogStage(hist, "plan")
    /\ UNCHANGED <<cfgVars, unit, llmVars, now, session, query_mapping, query_task_ids,
                   pending_tasks, elapsed_time, task, successful_results,
                   synthVars, response>>

\* lines 147 and 196
SetResearching ==
    /\ pc = "set_researching"
    /\ session' = update_status(session, StageStatus("set_researching"), "", now)
    /\ hist' = LogStatus(hist, StageStatus("set_researching"))
    /\ pc' = "dispatch"
    /\ now' = now + 1
    /\ UNCHANGED <<cfgVars, unit, llmVars, query_mapping, query_task_ids,
                   pending_tasks, elapsed_time, task, successful_results,
                   synthVars, exc, response>>

\* The id celery gives the task submitted for category c.
TaskId(c) == <<"task", c>>

\* lines 151-159: one serpapi_search task per non-empty query
SubmitTasks ==
    /\ pc = "dispatch" /\ ENABLE_CELERY
    /\ query_task_ids' = [c \in NonEmpty(query_mapping) |-> TaskId(c)]
    /\ task' = [c \in Categories |->
                  IF c \in NonEmpty(query_mapping) THEN PendingTask ELSE task[c]]
    /\ hist' = LogStage(hist, "dispatch_begin")
    /\ pc' = "save_task_ids"
    /\ UNCHANGED <<cfgVars, unit, llmVars, now, session, query_mapping, pending_tasks,
                   elapsed_time, successful_results, synthVars, exc, response>>

\* lines 162-173
SaveTaskIds ==
    /\ pc = "save_task_ids"
    /\ session' = save_task_ids(session, query_task_ids, now)
    /\ pending_tasks' = DOMAIN query_task_ids
    /\ elapsed_time' = 0
    /\ pc' = "poll"
    /\ now' = now + 1
    /\ UNCHANGED <<cfgVars, unit, llmVars, query_mapping, query_task_ids, task,
                   successful_results, synthVars,
                   exc, response, hist>>

\* The worker finishes the task of category c while the handler sleeps.
WorkerFinish(c) ==
    /\ pc = "poll" /\ task[c].state = "PENDING"
    /\ \E o \in WorkerOutcomes(c) :
         /\ task' = [task EXCEPT ![c] = o]
         /\ hist' = [hist EXCEPT !.engine[c] = WorkerEngine(o)]
    /\ UNCHANGED <<pc, cfgVars, unit, llmVars, now, session, query_mapping,
                   query_task_ids, pending_tasks, elapsed_time,
                   successful_results, synthVars,
                   exc, response>>

\* lines 175-190: one iteration of the poll loop
PollTick ==
    /\ pc = "poll" /\ LoopCond(pending_tasks, elapsed_time)
    /\ elapsed_time' = elapsed_time + poll_interval
    /\ successful_results' = PollResults(successful_results, pending_tasks, task)
    /\ pending_tasks' = PollPending(pending_tasks, task)
    /\ UNCHANGED <<pc, cfgVars, unit, llmVars, now, session, query_mapping,
                   query_task_ids, task, synthVars,
                   exc, response, hist>>

\* The branch taken at line 233 once the dispatch has produced `results`.
AfterDispatch(results) == IF DOMAIN results = {} THEN "fail_all" ELSE "youtube"

\* lines 175 and 192-193: the loop ends; what is still pending is dropped
PollExit ==
    /\ pc = "poll" /\ ~LoopCond(pending_tasks, elapsed_time)
    /\ pc' = AfterDispatch(successful_results)
    /\ elapsed_time' = 0    \* the loop's clock is not read after the loop
    /\ UNCHANGED <<cfgVars, unit, llmVars, now, session, query_mapping, query_task_ids,
                   pending_tasks, task, successful_results,
                   synthVars, exc, response, hist>>

\* lines 199-210: the coroutines of the non-empty queries are created and
\* handed to gather; with none the session is failed
InlineStart ==
    /\ pc = "dispatch" /\ ~ENABLE_CELERY
    /\ IF NonEmpty(query_mapping) = {}
       THEN pc' = "fail_no_queries" /\ UNCHANGED task
       ELSE /\ pc' = "gather"
            /\ task' = [c \in Categories |->
                          IF c \in NonEmpty(query_mapping) THEN PendingTask ELSE task[c]]
    /\ hist' = LogStage(hist, "dispatch_begin")
    /\ UNCHANGED <<cfgVars, unit, llmVars, now, session, query_mapping, query_task_ids,
                   pending_tasks, elapsed_time, successful_results,
                   synthVars, exc, response>>

\* One search of the thread pool returns or raises, in any order.
SearchFinish(c) ==
    /\ pc = "gather" /\ task[c].state = "PENDING"
    /\ \E o \in InlineOutcomes(c) : task' = [task EXCEPT ![c] = o]
    /\ hist' = [hist EXCEPT !.engine[c] = ENGINE_FOR_QUERY_TYPE(c)]
    /\ UNCHANGED <<pc, cfgVars, unit, llmVars, now, session, query_mapping,
                   query_task_ids, pending_tasks, elapsed_time,
                   successful_results, synthVars,
                   exc, response>>

\* lines 212-231: gather returns and the results are sorted into
\* successful_results
Gather ==
    /\ pc = "gather" /\ GatherDone(task, NonEmpty(query_mapping))
    /\ successful_results' = InlineResults(task)
    /\ pc' = AfterDispatch(successful_results')
    /\ UNCHANGED <<cfgVars, unit, llmVars, now, session, query_mapping, query_task_ids,
                   pending_tasks, elapsed_time, task, synthVars, exc, response, hist>>

\* lines 207-210
FailNoQueries ==
    /\ pc = "fail_no_queries"
    /\ session' = update_status(session, "failed", "No search queries generated", now)
    /\ hist' = LogStatus(hist, "failed")
    /\ \E e \in HTTPExceptionStr("400: No search queries generated from brief.") : Raise(e)
    /\ now' = now + 1
    /\ UNCHANGED <<cfgVars, unit, llmVars, query_mapping, query_task_ids,
                   pending_tasks, elapsed_time, task, successful_results,
                   synthVars, response>>

\* lines 234-242
FailAllSearches ==
    /\ pc = "fail_all"
    /\ session' = update_status(session, "failed",
                                "All SerpAPI searches failed or timed out", now)
    /\ hist' = LogStatus(hist, "failed")
    /\ \E e \in HTTPExceptionStr("500: All SerpAPI searches failed or timed out.") : Raise(e)
    /\ now' = now + 1
    /\ UNCHANGED <<cfgVars, unit, llmVars, query_mapping, query_task_ids,
                   pending_tasks, elapsed_time, task, successful_results,
                   synthVars, response>>

\* What run_youtube_research_async can do: return the videos, return a dict
\* with an "error" key, or raise.
YouTubeOutcomes == {"videos", "error", "exception"}

YouTubeEntry == [query |-> "youtube_query", videos |-> "videos", shorts |-> "shorts"]

\* lines 245-266
YouTube ==
    /\ pc = "youtube"
    /\ \E o \in YouTubeOutcomes :
         /\ successful_results' = IF o = "videos"
                                  THEN Put(successful_results, "youtube", YouTubeEntry)
                                  ELSE successful_results
         /\ hist' = [LogStage(hist, "dispatch_end") EXCEPT !.youtube = o]
    /\ pc' = "save_search_results"
    \* nothing below reads the dispatch's locals or the task handles again
    /\ query_task_ids' = EmptyDict
    /\ pending_tasks' = {}
    /\ task' = [c \in Categories |-> NoTask]
    /\ UNCHANGED <<cfgVars, unit, llmVars, now, session, query_mapping, elapsed_time, synthVars,
                   exc, response>>

\* lines 151-159 when send_task raises (the broker is unreachable)
SubmitRaises ==
    /\ pc = "dispatch" /\ ENABLE_CELERY
    /\ NonEmpty(query_mapping) # {}
    /\ Raise("broker error")
    /\ hist' = LogStage(hist, "dispatch_begin")
    /\ UNCHANGED <<cfgVars, unit, llmVars, now, session, query_mapping, query_task_ids,
                   pending_tasks, elapsed_time, task, successful_results,
                   synthVars, response>>

\* line 269
SaveSearchResults ==
    /\ pc = "save_search_results"
    /\ session' = save_search_results(session, successful_results, now)
    /\ pc' = "set_processing"
    /\ now' = now + 1
    /\ UNCHANGED <<cfgVars, unit, llmVars, query_mapping, query_task_ids, pending_tasks,
                   elapsed_time, task, successful_results, synthVars, exc,
                   response, hist>>

\* line 278
SetProcessing ==
    /\ pc = "set_processing"
    /\ session' = update_status(session, StageStatus("set_processing"), "", now)
    /\ hist' = LogStatus(hist, StageStatus("set_processing"))
    /\ pc' = "normalize"
    /\ now' = now + 1
    /\ UNCHANGED <<cfgVars, unit, llmVars, query_mapping, query_task_ids, pending_tasks,
                   elapsed_time, task, successful_results, synthVars, exc,
                   response>>

\* AnalysisService.process_search_results: one CategoryInsights per category
\* key of the raw results (a payload without organic results gives an empty
\* one), youtube_insights when the key is there, and the summary.
process_search_results(raw) ==
    [insights |-> [c \in DOMAIN raw \cap Categories |->
                     [category |-> c, query |-> raw[c].query,
                      content |-> IF "results" \in DOMAIN raw[c]
                                     /\ raw[c].results = "payload"
                                  THEN "results" ELSE "empty"]],
     youtube_insights |-> "youtube" \in DOMAIN raw,
     processing_summary |->
        [categories_processed |->
            Cardinality(DOMAIN raw \cap (Categories \cup {"youtube"})),
         categories_available |-> DOMAIN raw]]

\* line 282
Normalize ==
    /\ pc = "normalize"
    /\ processed_results' = Some(process_search_results(successful_results))
    /\ hist' = LogStage(hist, "normalize")
    /\ pc' = "save_processed"
    /\ UNCHANGED <<cfgVars, unit, llmVars, now, session, query_mapping, query_task_ids,
                   pending_tasks, elapsed_time, task, successful_results,
                   research_report, exc, response>>

\* lines 285-288
SaveProcessed ==
    /\ pc = "save_processed"
    /\ session' = save_processed_results(session, processed_results[1], now)
    /\ pc' = "set_synthesizing"
    /\ now' = now + 1
    /\ UNCHANGED <<cfgVars, unit, llmVars, query_mapping, query_task_ids, pending_tasks,
                   elapsed_time, task, successful_results, synthVars, exc,
                   response, hist>>

\* line 305
SetSynthesizing ==
    /\ pc = "set_synthesizing"
    /\ session' = update_status(session, StageStatus("set_synthesizing"), "", now)
    /\ hist' = LogStatus(hist, StageStatus("set_synthesizing"))
    /\ pc' = "synthesize"
    /\ now' = now + 1
    /\ UNCHANGED <<cfgVars, unit, llmVars, query_mapping, query_task_ids, pending_tasks,
                   elapsed_time, task, successful_results, synthVars, exc,
                   response>>

\* SynthesisService.synthesize_all: one LLM call per populated insight, then
\* the executive summary and the action items, each with the next key of the
\* pool; every call catches what it raises.
Synthesize ==
    /\ pc = "synthesize"
    /\ LET ins == DOMAIN processed_results[1].insights
           n == Len(CallList(ins))
       IN  /\ \E resp \in ResponseMaps(ins) :
                research_report' = Some(synthesize_all(ins, resp))
           /\ llm_keys' = llm_keys \o KeysFrom(key_cycle, n)
           /\ key_cycle' = CycleAfter(key_cycle, n)
    /\ hist' = LogStage(hist, "synthesize")
    /\ pc' = "save_report"
    /\ UNCHANGED <<cfgVars, unit, synth, now, session, query_mapping, query_task_ids,
                   pending_tasks, elapsed_time, task, successful_results,
                   processed_results, exc, response>>

\* line 315
SaveReport ==
    /\ pc = "save_report"
    /\ session' = save_report(session, research_report[1], now)
    /\ hist' = LogStage(hist, "persist_report")
    /\ pc' = "save_resources_used"
    /\ now' = now + 1
    /\ UNCHANGED <<cfgVars, unit, llmVars, query_mapping, query_task_ids, pending_tasks,
                   elapsed_time, task, successful_results, synthVars, exc,
                   response>>

\* lines 318-319: ResearchSessionService defines no save_resources_used
\* (research_session_service.py:9-167), so the attribute lookup raises
\* AttributeError and line 322 is never reached.
SaveResourcesUsed ==
    /\ pc = "save_resources_used"
    /\ Raise("'ResearchSessionService' object has no attribute 'save_resources_used'")
    /\ UNCHANGED <<cfgVars, unit, llmVars, now, session, query_mapping, query_task_ids,
                   pending_tasks, elapsed_time, task, successful_results,
                   synthVars, response, hist>>

\* The positions at which the handler awaits a call of the session store.
StorePcs == {"create", "set_researching", "save_task_ids", "fail_no_queries",
             "fail_all", "save_search_results", "set_processing",
             "save_processed", "set_synthesizing", "save_report"}

\* A store call raises (the services log and re-raise): nothing is written.
StoreRaises ==
    /\ pc \in StorePcs
    /\ Raise("database error")
    /\ hist' = [hist EXCEPT !.storeFailed = TRUE]
    /\ UNCHANGED <<cfgVars, unit, llmVars, now, session, query_mapping, query_task_ids,
                   pending_tasks, elapsed_time, task, successful_results,
                   synthVars, response>>

HandlerStatusRetry == "pending"

\* The status the handler writes, line 355.
HandlerStatus == "failed"

HandlerMessageDropped(e) == ""

\* The error_message the handler passes, line 356.
HandlerMessage(e) == e

ErrorResponse(detail) == [status_code |-> 500, detail |-> detail]

\* lines 347-361 with a session: the update succeeds
HandlerUpdate ==
    /\ pc = "handler" /\ session.exists
    /\ session' = update_status(session, HandlerStatus, HandlerMessage(exc), now)
    /\ hist' = LogStatus(hist, HandlerStatus)
    /\ response' = ErrorResponse(exc)
    /\ pc' = "done"
    /\ now' = now + 1
    /\ UNCHANGED <<cfgVars, unit, llmVars, query_mapping, query_task_ids, pending_tasks,
                   elapsed_time, task, successful_results, synthVars, exc>>

\* lines 352-359: the update raises and is only logged
HandlerUpdateRaises ==
    /\ pc = "handler" /\ session.exists
    /\ hist' = [hist EXCEPT !.handlerFailed = TRUE]
    /\ response' = ErrorResponse(exc)
    /\ pc' = "done"
    /\ UNCHANGED <<cfgVars, unit, llmVars, now, session, query_mapping, query_task_ids,
                   pending_tasks, elapsed_time, task, successful_results,
                   synthVars, exc>>

\* lines 347-361 without a session (line 351 is false)
HandlerNoSession ==
    /\ pc = "handler" /\ ~session.exists
    /\ response' = ErrorResponse(exc)
    /\ pc' = "done"
    /\ UNCHANGED <<cfgVars, unit, llmVars, now, session, query_mapping, query_task_ids,
                   pending_tasks, elapsed_time, task, successful_results,
                   synthVars, exc, hist>>

Next ==
    \/ Validate
    \/ CreateSession
    \/ PlanReturns
    \/ PlanRaises
    \/ SetResearching
    \/ SubmitTasks
    \/ SubmitRaises
    \/ SaveTaskIds
    \/ \E c \in Categories : WorkerFinish(c)
    \/ PollTick
    \/ PollExit
    \/ InlineStart
    \/ \E c \in Categories : SearchFinish(c)
    \/ Gather
    \/ FailNoQueries
    \/ FailAllSearches
    \/ YouTube
    \/ SaveSearchResults
    \/ SetProcessing
    \/ Normalize
    \/ SaveProcessed
    \/ SetSynthesizing
    \/ Synthesize
    \/ SaveReport
    \/ SaveResourcesUsed
    \/ StoreRaises
    \/ HandlerUpdate
    \/ HandlerUpdateRaises
    \/ HandlerNoSession

Spec == Init /\ [][Next]_vars

----------------------------------------------------------------------------
(* The session store called directly: any sequence of calls on one session *)

InitStore ==
    /\ pc = "api"
    /\ ENABLE_CELERY = FALSE
    /\ brief = FullBrief
    /\ session = NoSession
    /\ now = 1
    /\ query_mapping = [c \in Categories |-> ""]
    /\ query_task_ids = EmptyDict
    /\ pending_tasks = {}
    /\ elapsed_time = 0
    /\ task = [c \in Categories |-> NoTask]
    /\ successful_results = EmptyDict
    /\ processed_results = Null
    /\ research_report = Null
    /\ key_cycle = 0
    /\ llm_keys = <<>>
    /\ synth = NoSynth
    /\ exc = ""
    /\ response = "none"
    /\ unit = NoUnit
    /\ hist = NoHist

storeFrame == <<pc, cfgVars, unit, llmVars, query_mapping, query_task_ids, pending_tasks,
                elapsed_time, task, successful_results, synthVars, exc, response>>

\* The payloads the calls below pass.
ApiMessages == {"", "error A", "error B"}
ApiPayloads == {EmptyDict, [product |-> "v1"], [product |-> "v2"]}

\* create_session
ApiCreate ==
    /\ pc = "api" /\ ~session.exists
    /\ session' = RepoCreate(EmptyDict)
    /\ now' = now + 1
    /\ hist' = LogCall(LogStatus(hist, "pending"), <<"create_session">>)
    /\ UNCHANGED storeFrame

\* update_status(session_id, status, error_message)
ApiUpdateStatus ==
    /\ pc = "api" /\ session.exists /\ now < MaxClock
    /\ \E st \in Statuses, msg \in ApiMessages :
         /\ session' = update_status(session, st, msg, now)
         /\ hist' = LogCall([hist EXCEPT !.wasCompleted = @ \/ st = "completed"],
                            <<"update_status", st, msg>>)
    /\ now' = now + 1
    /\ UNCHANGED storeFrame

\* save_search_results, save_processed_results, save_report, save_task_ids
ApiSave ==
    /\ pc = "api" /\ session.exists /\ now < MaxClock
    /\ \E v \in ApiPayloads :
         \/ /\ session' = save_search_results(session, v, now)
            /\ hist' = LogCall(hist, <<"save_search_results", v>>)
         \/ /\ session' = save_processed_results(session, v, now)
            /\ hist' = LogCall(hist, <<"save_processed_results", v>>)
         \/ /\ session' = save_report(session, v, now)
            /\ hist' = LogCall(hist, <<"save_report", v>>)
         \/ /\ session' = save_task_ids(session, v, now)
            /\ hist' = LogCall(hist, <<"save_task_ids", v>>)
    /\ now' = now + 1
    /\ UNCHANGED storeFrame

NextStore == ApiCreate \/ ApiUpdateStatus \/ ApiSave

SpecStore == InitStore /\ [][NextStore]_vars

----------------------------------------------------------------------------
(* The synthesis service called by two pipelines of one process *)

InitSynth ==
    /\ pc = "synth"
    /\ ENABLE_CELERY = FALSE
    /\ brief = FullBrief
    /\ session = NoSession
    /\ now = 1
    /\ query_mapping = [c \in Categories |-> ""]
    /\ query_task_ids = EmptyDict
    /\ pending_tasks = {}
    /\ elapsed_time = 0
    /\ task = [c \in Categories |-> NoTask]
    /\ successful_results = EmptyDict
    /\ processed_results = Null
    /\ research_report = Null
    /\ key_cycle = 0
    /\ llm_keys = <<>>
    /\ \E f \in SynthInputs :
         synth = [i \in Pipelines |->
                    [insights |-> f[i], calls |-> <<>>, state |-> "running"]]
    /\ exc = ""
    /\ response = "none"
    /\ unit = NoUnit
    /\ hist = NoHist

synthFrame == <<pc, cfgVars, unit, session, now, query_mapping, query_task_ids,
                pending_tasks, elapsed_time, task, successful_results,
                synthVars, exc, response, hist>>

\* Pipeline i makes its next LLM call: _get_llm draws the key, the call is
\* awaited (the other pipeline may run meanwhile) and its result is kept; an
\* exception that no except branch caught leaves synthesize_all.
SynthCall(i) ==
    /\ pc = "synth" /\ synth[i].state = "running"
    /\ Len(synth[i].calls) < Len(CallList(synth[i].insights))
    /\ LET call == CallList(synth[i].insights)[Len(synth[i].calls) + 1]
       IN  \E resp \in ResponsesOf(call) :
             LET k == get_next_groq_key(key_cycle, resp)
                 r == CallResult(call, resp)
             IN  /\ key_cycle' = k.cycle
                 /\ llm_keys' = Append(llm_keys, k.key)
                 /\ synth' = [synth EXCEPT ![i] =
                        IF r = "raised"
                        THEN [@ EXCEPT !.state = "raised"]
                        ELSE [@ EXCEPT !.calls = Append(@,
                                 [call |-> call, key |-> k.key,
                                  response |-> resp, result |-> r])]]
    /\ UNCHANGED synthFrame

\* synthesize_all of pipeline i returns its report, line 175.
SynthReturn(i) ==
    /\ pc = "synth" /\ synth[i].state = "running"
    /\ Len(synth[i].calls) = Len(CallList(synth[i].insights))
    /\ synth' = [synth EXCEPT ![i].state = "returned"]
    /\ UNCHANGED <<synthFrame, key_cycle, llm_keys>>

NextSynth == \E i \in Pipelines : SynthCall(i) \/ SynthReturn(i)

SpecSynth == InitSynth /\ [][NextSynth]_vars

----------------------------------------------------------------------------
(* The video research unit, youtube_service.py *)

\* The provider's lists explored have at most MaxVideoHits video results and
\* at most MaxShortHits shorts.
MaxVideoHits == 4
MaxShortHits == 6

TOP_VIDEOS_COUNT == 3
TOP_SHORTS_COUNT == 5

\* A hit of the provider: "noid" has no video id in its link (or video_id
\* field); the transcript retrieval of "text" returns text, that of "raises"
\* raises or finds nothing.
HitKinds == {"noid", "text", "raises"}

SeqsUpTo(S, n) == UNION {[1..k -> S] : k \in 0..n}

\* What search_youtube gives run_youtube_research: an exception, an error
\* payload, or video_results and one section of shorts_results.
VideoArgs ==
    {[search |-> "raises", videos |-> <<>>, shorts |-> <<>>],
     [search |-> "error", videos |-> <<>>, shorts |-> <<>>]}
    \cup {[search |-> "results", videos |-> v, shorts |-> <<sh>>] :
            v \in SeqsUpTo(HitKinds, MaxVideoHits),
            sh \in SeqsUpTo(HitKinds, MaxShortHits)}

fetch_transcriptNull(hit) == IF hit = "text" THEN Some("text") ELSE Null

\* _fetch_transcript: the text, or "" when there is none or the retrieval
\* raised.  Some(s) is the string s, Null is None.
fetch_transcript(hit) == IF hit = "text" THEN Some("text") ELSE Some("")

Take(q, n) == SubSeq(q, 1, IF Len(q) < n THEN Len(q) ELSE n)

RECURSIVE flatten_shorts(_)
\* _flatten_shorts: the shorts of every section that have a video id
flatten_shorts(sections) ==
    IF sections = <<>> THEN <<>>
    ELSE SelectSeq(Head(sections), LAMBDA h : h # "noid")
            \o flatten_shorts(Tail(sections))

\* lines 89-109 and 111-126: the records built for the hits that have an id
WithTranscripts(hits) ==
    LET kept == SelectSeq(hits, LAMBDA h : h # "noid")
    IN  [k \in 1..Len(kept) |-> [hit |-> kept[k], transcript |-> fetch_transcript(kept[k])]]

\* run_youtube_research: what the call does for the argument a
run_youtube_research(a) ==
    IF a.search = "raises" THEN [raised |-> TRUE, value |-> Null]
    ELSE IF a.search = "error"
    THEN [raised |-> FALSE,
          value |-> Some([videos |-> <<>>, shorts |-> <<>>, error |-> TRUE])]
    ELSE [raised |-> FALSE,
          value |-> Some([videos |-> WithTranscripts(Take(a.videos, TOP_VIDEOS_COUNT)),
                          shorts |-> WithTranscripts(Take(flatten_shorts(a.shorts),
                                                          TOP_SHORTS_COUNT)),
                          error |-> FALSE])]

----------------------------------------------------------------------------
(* The normalizer, analysis_service.py *)

\* The organic_results lists explored have at most MaxOrganic entries, the
\* AI overview at most MaxOverview snippets after at most MaxProbes others.
MaxOrganic == 11
MaxOverview == 16
MaxProbes == 2

\* AnalysisService.__init__, analysis_service.py:22
max_organic_results == 10

\* An organic result of the provider at position k.  Its kind says what it
\* carries: "full" title, link and source siteA; "fullB" the same with source
\* siteB; "nosource" title and a link to siteC without a source; "titleonly",
\* "linkonly" and "neither" what their names say.
OrganicKinds == {"full", "fullB", "nosource", "titleonly", "linkonly", "neither"}

OrganicItem(k, kind) == [position |-> k, kind |-> kind]

HasTitle(it) == it.kind \in {"full", "fullB", "nosource", "titleonly"}
HasLink(it) == it.kind \in {"full", "fullB", "nosource", "linkonly"}

\* item.get("source", "") and the domain of item.get("link", "")
SourceOf(it) ==
    CASE it.kind = "full" -> "siteA"
      [] it.kind = "fullB" -> "siteB"
      [] OTHER -> ""
DomainOf(it) == IF HasLink(it) THEN "siteC" ELSE ""

\* A string of the payload: its text up to case and surrounding blanks, whether
\* it has upper-case letters, whether it ends with a blank, and its length.
Str(text, caps, pad, len) == [text |-> text, caps |-> caps, pad |-> pad, len |-> len]

\* str.lower() and str.strip()
lower(x) == [x EXCEPT !.caps = FALSE]
strip(x) == [x EXCEPT !.pad = FALSE, !.len = IF x.pad THEN @ - 1 ELSE @]

\* the snippet of the organic result at position k, and the k-th snippet of
\* the AI overview: all different, all long
OrganicSnippet(k) == Str(<<"organic", k>>, FALSE, FALSE, 40)
OverviewSnippet(k) == Str(<<"overview", k>>, FALSE, FALSE, 40)

\* Strings that differ in case or in a final blank only, and strings of 20
\* and 21 characters.
Probes ==
    {Str(<<"x", 0>>, FALSE, FALSE, 25), Str(<<"x", 0>>, TRUE, FALSE, 25), Str(<<"x", 0>>, FALSE, TRUE, 26),
     Str(<<"y", 0>>, FALSE, FALSE, 20), Str(<<"z", 0>>, FALSE, FALSE, 21), Str(<<"w", 0>>, FALSE, TRUE, 21)}

\* organic_results lists: full results with at most one result of another kind
OrganicLists ==
    {[k \in 1..n |-> OrganicItem(k, "full")] : n \in 0..MaxOrganic}
    \cup {[k \in 1..n |-> OrganicItem(k, IF k = j THEN kind ELSE "full")] :
            n \in 1..MaxOrganic, j \in 1..MaxOrganic, kind \in OrganicKinds \ {"full"}}

\* the text blocks of the AI overview: some probes, then distinct snippets
OverviewLists ==
    {pr \o [k \in 1..n |-> OverviewSnippet(k)] :
        pr \in SeqsUpTo(Probes, MaxProbes), n \in 0..MaxOverview}

\* The raw payloads of a category: one part varies, the others are small.
CategoryArgs ==
    {[organic |-> o, overview |-> <<>>, answers |-> <<>>] : o \in OrganicLists}
    \cup {[organic |-> o, overview |-> ov, answers |-> an] :
            o \in {<<>>, [k \in 1..5 |-> OrganicItem(k, "full")]},
            ov \in OverviewLists,
            an \in {<<>>, <<Str(<<"x", 0>>, TRUE, FALSE, 25)>>}}

extract_organic_resultsEither(raw_organic) ==
    SelectSeq(Take(raw_organic, max_organic_results),
              LAMBDA it : HasTitle(it) \/ HasLink(it))

\* _extract_organic_results: of the first max_organic_results entries, those
\* whose title and link are both non-empty (line 178)
extract_organic_results(raw_organic) ==
    SelectSeq(Take(raw_organic, max_organic_results),
              LAMBDA it : HasTitle(it) /\ HasLink(it))

RECURSIVE Dedup(_, _)
\* lines 295-301: the snippets longer than 20 whose lower-cased, stripped
\* form was not seen before, in order
Dedup(snippets, seen) ==
    IF snippets = <<>> THEN <<>>
    ELSE LET x == Head(snippets)
             snippet_lower == strip(lower(x))
         IN  IF snippet_lower \notin seen /\ x.len > 20
             THEN <<x>> \o Dedup(Tail(snippets), seen \cup {snippet_lower})
             ELSE Dedup(Tail(snippets), seen)

extract_key_snippetsNoDedup(overview, answers, top_results) ==
    Take(SelectSeq(overview \o answers
                     \o [k \in 1..Len(Take(top_results, 5)) |->
                            OrganicSnippet(top_results[k].position)],
                   LAMBDA x : x.len > 20), 15)

\* _extract_key_snippets: the AI overview's snippets, the answers and the
\* snippets of the first five results, deduplicated, at most 15
extract_key_snippets(overview, answers, top_results) ==
    Take(Dedup(overview \o answers
                 \o [k \in 1..Len(Take(top_results, 5)) |->
                        OrganicSnippet(top_results[k].position)],
               {}), 15)

\* The hash seed of the interpreter (PYTHONHASHSEED, random per process by
\* default): it decides in which order a set of strings is iterated.
HashSeeds == {"seed1", "seed2"}

SourceOrder == <<"siteA", "siteB", "siteC">>

Reverse(q) == [k \in 1..Len(q) |-> q[Len(q) + 1 - k]]

\* list(sources) for the set S under the hash seed
ListOfSet(S, seed) ==
    LET asc == SelectSeq(SourceOrder, LAMBDA x : x \in S)
    IN  IF seed = "seed1" THEN asc ELSE Reverse(asc)

\* _extract_unique_sources: the source of each result, or the domain of its
\* link when it has none, as list(set)
extract_unique_sources(top_results, seed) ==
    ListOfSet({IF SourceOf(top_results[k]) # "" THEN SourceOf(top_results[k])
               ELSE DomainOf(top_results[k]) : k \in 1..Len(top_results)} \ {""},
              seed)

\* AnalysisService._process_category in a process with the given hash seed
process_category(a, seed) ==
    LET top_results == extract_organic_results(a.organic)
    IN  [top_results |-> top_results,
         ai_overview |-> a.overview,
         answers |-> a.answers,
         key_snippets |-> extract_key_snippets(a.overview, a.answers, top_results),
         sources |-> extract_unique_sources(top_results, seed)]

InitUnits ==
    /\ pc = "unit"
    /\ ENABLE_CELERY = FALSE
    /\ brief = FullBrief
    /\ session = NoSession
    /\ now = 1
    /\ query_mapping = [c \in Categories |-> ""]
    /\ query_task_ids = EmptyDict
    /\ pending_tasks = {}
    /\ elapsed_time = 0
    /\ task = [c \in Categories |-> NoTask]
    /\ successful_results = EmptyDict
    /\ processed_results = Null
    /\ research_report = Null
    /\ key_cycle = 0
    /\ llm_keys = <<>>
    /\ synth = NoSynth
    /\ unit \in {[fn |-> "run_youtube_research", arg |-> Some(a), ret |-> <<>>] :
                    a \in VideoArgs}
               \cup {[fn |-> "process_category", arg |-> Some(a), ret |-> <<>>] :
                       a \in CategoryArgs}
    /\ exc = ""
    /\ response = "none"
    /\ hist = NoHist

unitFrame == <<pc, ENABLE_CELERY, brief, session, now, query_mapping,
               query_task_ids, pending_tasks, elapsed_time, task,
               successful_results, synthVars, llmVars, exc, response, hist>>

\* run_youtube_research is called and returns or raises
RunYouTubeResearch ==
    /\ pc = "unit" /\ unit.fn = "run_youtube_research" /\ unit.ret = <<>>
    /\ unit' = [unit EXCEPT !.ret = <<run_youtube_research(unit.arg[1])>>]
    /\ UNCHANGED unitFrame

\* _process_category is called on the payload, a first and a second time,
\* each time in a process with some hash seed; the payload is only read
ProcessCategory ==
    /\ pc = "unit" /\ unit.fn = "process_category" /\ Len(unit.ret) < 2
    /\ \E seed \in HashSeeds :
         unit' = [unit EXCEPT !.ret = Append(@, process_category(unit.arg[1], seed))]
    /\ UNCHANGED unitFrame

NextUnits == RunYouTubeResearch \/ ProcessCategory

SpecUnits == InitUnits /\ [][NextUnits]_vars

----------------------------------------------------------------------------
(* Properties *)

Range(q) == {q[i] : i \in 1..Len(q)}

Terminal == {"completed", "failed"}

StatusOrder == <<"pending", "researching", "processing", "synthesizing", "completed">>

Rank(st) == CHOOSE i \in 1..Len(StatusOrder) : StatusOrder[i] = st

\* a -> b is one step forward, or a non-terminal status failing
StepAllowed(a, b) ==
    \/ a \notin Terminal /\ b = "failed"
    \/ a \in Range(StatusOrder) /\ b \in Range(StatusOrder) /\ Rank(b) = Rank(a) + 1

\* The categories whose search handed the dispatcher a provider payload that
\* is not an error payload.
RealSuccesses(results) ==
    {c \in DOMAIN results \cap Categories :
        "results" \in DOMAIN results[c] /\ results[c].results = "payload"}

\* C1: once the stored status of the session is completed or failed, no step
\* of start_research changes it to another value.
C1_TerminalStatusKept ==
    [][session.status \in Terminal => session'.status = session.status]_vars

\* C1 witness: the session was failed by the dispatch stage and the handler
\* at line 347 has written its status a second time.
C1_Witness ==
    /\ pc = "done" /\ session.status = "failed"
    /\ \E i, j \in 1..Len(hist.statusLog) :
         i < j /\ hist.statusLog[i] = "failed" /\ hist.statusLog[j] = "failed"

\* C2: every change of the stored status made by start_research, in either
\* mode, goes one step forward in pending, researching, processing,
\* synthesizing, completed, or from a non-terminal status to failed.
C2_ForwardSteps ==
    [][session.exists /\ session'.status # session.status
         => StepAllowed(session.status, session'.status)]_vars

\* C2 witness: a queued-mode run wrote researching, processing and
\* synthesizing in turn and was then failed by the handler.
C2_Witness ==
    ENABLE_CELERY /\ hist.statusLog = <<"pending", "researching", "processing", "synthesizing", "failed">>

\* C3: a call of update_status that asks for a backward transition, a
\* transition out of completed or failed, or a skip of more than one step does
\* not change the stored status.
C3_StoreValidates ==
    [][pc = "api" /\ session.exists /\ ~StepAllowed(session.status, session'.status)
         => session'.status = session.status]_vars

\* The run is over and every store call of it, the handler's included, returned.
QuietStore == ~hist.storeFailed /\ ~hist.handlerFailed

\* C4: for a query map with a non-empty entry, a run in which some category
\* search succeeded reaches processing, and a run in which none succeeded is
\* failed by the dispatch stage, that is, ends failed without processing
\* ever having been written.  Stated on the runs whose store calls all
\* returned, so that a violation is the dispatcher's own.
C4_DispatchDecides ==
    (pc = "done" /\ session.exists /\ NonEmpty(query_mapping) # {} /\ QuietStore)
        => IF RealSuccesses(successful_results) # {}
           THEN "processing" \in Range(hist.statusLog)
           ELSE /\ "processing" \notin Range(hist.statusLog)
                /\ session.status = "failed"

\* C5: in queued mode the results set is exactly the set of categories whose
\* task was seen ready and successful at a poll tick within the bound, with
\* the task's result as the entry; a failed task and a task still pending at
\* the end are not in it; a category leaves pending_tasks at most once; and
\* the dispatch stage fails the session only when the set is empty.
C5_QueuedResults ==
    /\ [](ENABLE_CELERY /\ pc \in {"poll", "fail_all", "youtube"} =>
            /\ DOMAIN successful_results =
                 {c \in DOMAIN query_task_ids \ pending_tasks : successful(task[c])}
            /\ \A c \in DOMAIN successful_results :
                 successful_results[c] = task[c].result[1]
            /\ pc = "fail_all" => DOMAIN successful_results = {}
            /\ pc = "youtube" => DOMAIN successful_results # {})
    /\ [][ENABLE_CELERY /\ pc = "poll" =>
            /\ pending_tasks' \subseteq pending_tasks
            /\ successful_results' # successful_results =>
                 /\ elapsed_time' = elapsed_time + poll_interval
                 /\ elapsed_time' <= max_wait_time]_vars

\* C5 witness: product was ready at a tick, competitor never was; the loop
\* has ended at the bound with product alone in the results and the run goes on.
C5_Witness ==
    /\ ENABLE_CELERY /\ pc = "youtube"
    /\ DOMAIN successful_results = {"product"}
    /\ pending_tasks = {"competitor"}
    /\ task["competitor"].state = "PENDING"

\* An error message of the failure is on the record: the handler's str(e),
\* or, when str(e) is empty, the message written just before the raise.
MessageStored == session.meta # Null /\ (exc # "" => session.meta = Some(exc))

\* C6 as claimed: every run that ends with an error response after the
\* session was created leaves the session failed with the error message stored.
C6_FailureRecorded ==
    (pc = "done" /\ session.exists /\ response.status_code = 500)
        => session.status = "failed" /\ MessageStored

\* C6 amended: the same, for the runs in which the handler's own
\* update_status call (lines 353-357) returned.
C6_FailureRecordedUnlessHandlerFails ==
    (pc = "done" /\ session.exists /\ response.status_code = 500
        /\ ~hist.handlerFailed)
        => session.status = "failed" /\ MessageStored

\* C6 witness: a store call raised in mid-pipeline and the handler recorded it.
C6_Witness ==
    /\ pc = "done" /\ hist.storeFailed /\ ~hist.handlerFailed
    /\ "processing" \in Range(hist.statusLog)
    /\ session.status = "failed" /\ session.meta = Some("database error")

\* C7: a run in which some category search succeeded and no store call
\* failed ends with the report persisted and the session completed.
C7_Completes ==
    (pc = "done" /\ RealSuccesses(successful_results) # {} /\ QuietStore)
        => session.report # Null /\ session.status = "completed"

StageOrder == <<"plan", "dispatch_begin", "dispatch_end", "normalize",
                "synthesize", "persist_report">>

\* C8: the stages of a session run in the order Plan, Dispatch, Normalize,
\* Synthesize, Persist-report; when the dispatch's join has returned no
\* inline search is still running; and the report on the record is the one
\* synthesis returned.
C8_StagesInOrder ==
    /\ Len(hist.stageLog) <= Len(StageOrder)
    /\ hist.stageLog = SubSeq(StageOrder, 1, Len(hist.stageLog))
    /\ (~ENABLE_CELERY /\ pc \in {"youtube", "fail_all"})
          => \A c \in Categories : task[c].state # "PENDING"
    /\ processed_results # Null => "dispatch_end" \in Range(hist.stageLog)
    /\ research_report # Null => "normalize" \in Range(hist.stageLog)
    /\ session.report # Null =>
          "synthesize" \in Range(hist.stageLog) /\ session.report = research_report

\* C8 witness: all five stages have run and the report is on the record.
C8_Witness == hist.stageLog = StageOrder /\ session.report # Null

\* C9: in queued mode, at every poll tick the record holds the map from
\* each category with a non-empty query, and no other, to its task id.
C9_TaskIdsSavedBeforePolling ==
    [][ENABLE_CELERY /\ elapsed_time' > elapsed_time =>
          /\ session.taskIds = Some(query_task_ids)
          /\ DOMAIN query_task_ids = NonEmpty(query_mapping)
          /\ \A c \in DOMAIN query_task_ids : query_task_ids[c] = TaskId(c)]_vars

\* C9 witness: two tasks were submitted, their ids are on the record and
\* the first tick has passed.
C9_Witness ==
    /\ pc = "poll" /\ elapsed_time = poll_interval
    /\ Cardinality(DOMAIN query_task_ids) = 2
    /\ session.taskIds = Some(query_task_ids)

\* C10: the poll loop always ends: its clock moves in ticks of poll_interval
\* and never passes max_wait_time (at most 30 ticks), a tick is taken only
\* while a task is pending, and in the loop either a tick or the exit is
\* always possible.
C10_PollLoopEnds ==
    /\ [](pc = "poll" =>
            /\ elapsed_time \in 0..max_wait_time
            /\ elapsed_time % poll_interval = 0
            /\ ENABLED PollTick \/ ENABLED PollExit
            /\ pending_tasks = {} => ~ENABLED PollTick)
    /\ [][pc = "poll" /\ elapsed_time' # elapsed_time /\ pc' = "poll" =>
            /\ elapsed_time' = elapsed_time + poll_interval
            /\ pending_tasks # {}]_vars

\* C10 witness: a task never became ready and the loop has reached its bound.
C10_Witness ==
    /\ pc = "poll" /\ elapsed_time = max_wait_time
    /\ \E c \in pending_tasks : task[c].state = "PENDING"

\* The outcome of an inline search that corresponds to the outcome of a
\* queued one: a search that raised is the worker's error dict in queued
\* mode and a gathered exception in inline mode.
AsInline(t) ==
    [c \in Categories |->
        IF t[c] = SucceededTask(WorkerError(c)) THEN FailedTask ELSE t[c]]

\* C11: the two modes agree: when every queued task was seen finished, the
\* results of the queued dispatch are the results the inline dispatch builds
\* from the same per-category outcomes (same categories, same entry shape),
\* so that both fail or both go on with the same status sequence.
C11_ModesAgree ==
    (ENABLE_CELERY /\ pc \in {"fail_all", "youtube"} /\ pending_tasks = {})
        => successful_results = InlineResults(AsInline(task))

\* C12: in inline mode, whatever the siblings did and in whatever order the
\* searches finished, every category whose search returned a payload is in
\* the results with its query and payload.
C12_SiblingsKept ==
    (~ENABLE_CELERY /\ pc \in {"fail_all", "youtube"}) =>
        \A c \in Categories :
            (task[c].state = "SUCCESS" /\ task[c].result[1].results = "payload")
                => /\ c \in DOMAIN successful_results
                   /\ successful_results[c] = [query |-> QueryOf(c), results |-> "payload"]

\* C12 witness: one search raised, its sibling returned a payload and is in
\* the results.
C12_Witness ==
    /\ ~ENABLE_CELERY /\ pc = "youtube"
    /\ \E c, d \in Categories :
         /\ task[c] = FailedTask
         /\ task[d] = SucceededTask(SearchWrapper(d, "payload"))
         /\ d \in DOMAIN successful_results

\* C13: a category whose planned query is empty is never dispatched, has no
\* task handle (in the handler or on the record) and is in no results; the
\* inline dispatch fails for want of queries only when every query is empty,
\* and the dispatch stage fails the session only when no category is in the
\* results.
C13_EmptyQuerySkipped ==
    /\ \A c \in Categories : query_mapping[c] = "" =>
          /\ task[c] = NoTask
          /\ c \notin DOMAIN query_task_ids
          /\ c \notin pending_tasks
          /\ c \notin DOMAIN successful_results
          /\ session.taskIds # Null => c \notin DOMAIN session.taskIds[1]
          /\ session.searchResults # Null => c \notin DOMAIN session.searchResults[1]
    /\ pc = "fail_no_queries" => NonEmpty(query_mapping) = {}
    /\ pc = "fail_all" => DOMAIN successful_results = {}

\* C13 witness: a queued run with four empty queries; the product search
\* succeeded, its handle alone is on the record and the session went on.
C13_Witness ==
    /\ ENABLE_CELERY /\ pc = "normalize" /\ session.status = "processing"
    /\ NonEmpty(query_mapping) = {"product"}
    /\ DOMAIN session.taskIds[1] = {"product"}
    /\ DOMAIN session.searchResults[1] \cap Categories = {"product"}

\* The record without the values of the clock its timestamps hold: two
\* records are equivalent when they agree on it.
Unstamped(r) == [r EXCEPT !.updatedAt = (@ # Null), !.completedAt = (@ # Null)]

\* C14: a persistence call (update_status, save_search_results,
\* save_processed_results, save_report, save_task_ids) that repeats the call
\* before it with the same payload leaves the record as that call left it, up
\* to the time its timestamps hold: nothing is appended or accumulated.
C14_IdempotentOverwrite ==
    [][(pc = "api" /\ hist'.repeated) => Unstamped(session') = Unstamped(session)]_vars

\* C14 witness: update_status(id, failed, "error A") was called twice in a
\* row on a session that holds search results.
C14_Witness ==
    /\ pc = "api" /\ hist.repeated
    /\ hist.call = Some(<<"update_status", "failed", "error A">>)
    /\ session.searchResults # Null
    /\ session.status = "failed" /\ session.meta = Some("error A")

\* The store call made at each position of the handler that saves an
\* artifact, the column it is for and the payload it passes.
SaveField == [save_task_ids |-> "taskIds", save_search_results |-> "searchResults",
              save_processed |-> "processedResults", save_report |-> "report",
              save_resources_used |-> "resourcesUsed"]

SavePayload(p) ==
    CASE p = "save_task_ids" -> query_task_ids
      [] p = "save_search_results" -> successful_results
      [] p = "save_processed" -> processed_results[1]
      [] p = "save_report" -> research_report[1]
      [] p = "save_resources_used" -> "resources_used"

\* A save made at a position of P in which the store raised nothing writes
\* its payload to its column and leaves the status, the message,
\* completedAt and the other artifact columns as they were.
SaveStep(P) ==
    (pc \in P /\ pc' # pc /\ hist'.storeFailed = hist.storeFailed) =>
        /\ session'[SaveField[pc]] = Some(SavePayload(pc))
        /\ \A f \in DOMAIN session \ {SaveField[pc], "updatedAt"} :
              session'[f] = session[f]

SaveFramesOfStore == [][SaveStep(DOMAIN SaveField \ {"save_resources_used"})]_vars

\* C15: each of save_search_results, save_processed_results, save_report,
\* save_task_ids and save_resources_used, as start_research calls them,
\* persists its one artifact column and leaves the status and every other
\* artifact column unchanged.
C15_SavesOneArtifact == [][SaveStep(DOMAIN SaveField)]_vars

\* C16: update_status changes completedAt when and only when the requested
\* status is completed, and then to the time of the call; a call for failed
\* with an error message leaves that message on the record; a session whose
\* status never was completed has no completedAt.
C16_StatusStamps ==
    /\ [][(pc = "api" /\ now' # now /\ hist'.call[1][1] = "update_status") =>
            LET st == hist'.call[1][2]
                msg == hist'.call[1][3]
            IN  /\ session'.completedAt # session.completedAt <=> st = "completed"
                /\ st = "completed" => session'.completedAt = Some(now)
                /\ (st = "failed" /\ msg # "") => session'.meta = Some(msg)]_vars
    /\ [][(pc = "api" /\ now' # now /\ hist'.call[1][1] # "update_status") =>
            session'.completedAt = session.completedAt]_vars
    /\ [](~hist.wasCompleted => session.completedAt = Null)

\* C16 witness: the session was completed, then failed with a message:
\* completedAt holds the time of the first call, the record the message.
C16_Witness ==
    /\ pc = "api" /\ hist.call = Some(<<"update_status", "failed", "error B">>)
    /\ session.status = "failed" /\ session.meta = Some("error B")
    /\ session.completedAt # Null /\ session.completedAt # session.updatedAt

\* C17: a section call whose response is not JSON or does not fit the schema
\* gives that section the default object; no exception leaves
\* synthesize_all; and the calls of the other populated categories, of the
\* executive summary and of the action items are still made, in order, before
\* it returns.
C17_MalformedGivesDefault ==
    \A i \in Pipelines :
        LET calls == synth[i].calls
            todo == CallList(synth[i].insights)
        IN  /\ synth[i].state # "raised"
            /\ Len(calls) <= Len(todo)
            /\ \A k \in 1..Len(calls) :
                  /\ calls[k].call = todo[k]
                  /\ (calls[k].call \in Categories
                        /\ calls[k].response \in {"malformed_json", "schema_mismatch"})
                       => calls[k].result = "default"
            /\ synth[i].state = "returned" => Len(calls) = Len(todo)
            /\ (synth[i].state = "running" /\ Len(calls) < Len(todo))
                  => ENABLED SynthCall(i)

\* C17 witness: the product response of pipeline A was not JSON; its audience
\* analysis was parsed all the same, the summary and the action items were
\* generated and synthesize_all returned.
C17_Witness ==
    /\ pc = "synth" /\ synth["A"].state = "returned"
    /\ Len(synth["A"].calls) = 4
    /\ synth["A"].calls[1].response = "malformed_json"
    /\ synth["A"].calls[1].result = "default"
    /\ synth["A"].calls[2].call = "audience"
    /\ synth["A"].calls[2].result = "parsed"

\* the number of LLM calls pipeline i has made
CallsMade(s, i) == Len(s[i].calls) + (IF s[i].state = "raised" THEN 1 ELSE 0)

\* C18: counting from zero, the n-th LLM call of the process uses key
\* n mod 3 of the pool; the rotation moves by one at every call, whatever
\* the call's outcome; and of any three calls in a row no two use the same key.
C18_RoundRobin ==
    /\ [](/\ \A n \in 1..Len(llm_keys) :
               llm_keys[n] = groq_keys[((n - 1) % Len(groq_keys)) + 1]
          /\ key_cycle = Len(llm_keys) % Len(groq_keys)
          /\ \A n, m \in 1..Len(llm_keys) :
               (n < m /\ m < n + Len(groq_keys)) => llm_keys[n] # llm_keys[m])
    /\ [][(pc = "synth" /\ \E i \in Pipelines : CallsMade(synth', i) > CallsMade(synth, i))
            => /\ Len(llm_keys') = Len(llm_keys) + 1
               /\ key_cycle' = (key_cycle + 1) % Len(groq_keys)]_vars

\* C18 witness: five calls were made by the two pipelines in turn, one of
\* them raised, and the rotation has gone round once.
C18_Witness ==
    /\ pc = "synth" /\ Len(llm_keys) = 5
    /\ Len(synth["A"].calls) >= 2 /\ Len(synth["B"].calls) >= 2
    /\ synth["A"].calls[1].response = "raises"
    /\ synth["A"].calls[2].key = groq_keys[3]
    /\ key_cycle = 2

KeyIndex(key) == CHOOSE j \in 0..(Len(groq_keys) - 1) : groq_keys[j + 1] = key

\* C19: the keys the LLM calls of a pipeline use are those it uses when it
\* runs alone from its first call on, whatever the other pipeline does
\* meanwhile.
C19_PipelinesIndependent ==
    \A i \in Pipelines :
        synth[i].calls # <<>> =>
            [k \in 1..Len(synth[i].calls) |-> synth[i].calls[k].key]
                = KeysFrom(KeyIndex(synth[i].calls[1].key), Len(synth[i].calls))

\* The run ended after the video unit returned an error payload and every
\* store call returned: the processed results have no youtube_insights, the
\* video is not counted and the report is on the record.
VideoErrorSkipped ==
    (pc = "done" /\ hist.youtube = "error" /\ QuietStore) =>
        /\ processed_results # Null
        /\ ~processed_results[1].youtube_insights
        /\ "youtube" \notin processed_results[1].processing_summary.categories_available
        /\ processed_results[1].processing_summary.categories_processed
             = Cardinality(DOMAIN successful_results \cap Categories)
        /\ session.processedResults = processed_results
        /\ session.report # Null /\ session.report = research_report

\* C20: when the video unit returns an error payload, the processed results
\* have no youtube_insights, categories_processed does not count the video,
\* the report is produced and persisted, and the session is not failed.
C20_VideoErrorTolerated ==
    /\ VideoErrorSkipped
    /\ (pc = "done" /\ hist.youtube = "error" /\ QuietStore)
          => session.status # "failed"

\* C21: run_youtube_research returns a result, with what it gathered,
\* whatever fails inside it: the video search call or a transcript retrieval.
C21_VideoUnitNeverRaises ==
    (unit.fn = "run_youtube_research" /\ unit.ret # <<>>) => ~unit.ret[1].raised

\* C28: the video unit returns at most 3 video records and at most 5 short
\* records, and the transcript of every record is a string, "" when the
\* retrieval failed and never None.
C28_VideoLimits ==
    (unit.fn = "run_youtube_research" /\ unit.ret # <<>> /\ ~unit.ret[1].raised) =>
        LET v == unit.ret[1].value[1]
        IN  /\ Len(v.videos) <= 3
            /\ Len(v.shorts) <= 5
            /\ \A k \in 1..Len(v.videos) :
                  /\ v.videos[k].transcript # Null
                  /\ v.videos[k].hit # "text" => v.videos[k].transcript = Some("")
            /\ \A k \in 1..Len(v.shorts) :
                  /\ v.shorts[k].transcript # Null
                  /\ v.shorts[k].hit # "text" => v.shorts[k].transcript = Some("")

\* C28 witness: the provider gave four videos and six shorts with ids; three
\* and five were returned, one of each with a failed transcript retrieval.
C28_Witness ==
    /\ unit.fn = "run_youtube_research" /\ unit.ret # <<>>
    /\ Len(unit.arg[1].videos) = 4
    /\ Len(flatten_shorts(unit.arg[1].shorts)) = 6
    /\ ~unit.ret[1].raised
    /\ Len(unit.ret[1].value[1].videos) = 3
    /\ Len(unit.ret[1].value[1].shorts) = 5
    /\ unit.ret[1].value[1].videos[2].transcript = Some("")
    /\ unit.ret[1].value[1].shorts[5].transcript = Some("")

\* the insights the normalizer returned for the payload
Normalized == IF unit.fn = "process_category" THEN Range(unit.ret) ELSE {}

\* C22: for every raw category payload, key_snippets has at most 15
\* entries, none of 20 characters or fewer, and no two equal ignoring case.
C22_KeySnippets ==
    \A ins \in Normalized :
        LET ks == ins.key_snippets
        IN  /\ Len(ks) <= 15
            /\ \A k \in 1..Len(ks) : ks[k].len > 20
            /\ \A j, k \in 1..Len(ks) : j # k => lower(ks[j]) # lower(ks[k])

\* C22 witness: the payload had 18 snippets, among them one of 20 characters
\* and two that differ in case only; 15 were kept.
C22_Witness ==
    /\ unit.fn = "process_category" /\ unit.ret # <<>>
    /\ Len(unit.arg[1].overview) = 18
    /\ unit.arg[1].overview[1] = Str(<<"y", 0>>, FALSE, FALSE, 20)
    /\ unit.arg[1].overview[2] = Str(<<"x", 0>>, FALSE, FALSE, 25)
    /\ unit.arg[1].answers = <<Str(<<"x", 0>>, TRUE, FALSE, 25)>>
    /\ Len(unit.ret[1].key_snippets) = 15
    /\ unit.ret[1].key_snippets[1] = Str(<<"x", 0>>, FALSE, FALSE, 25)

\* C23: normalizing the same raw payload twice gives identical
\* CategoryInsights, element order of every list included.
C23_NormalizerPure ==
    (unit.fn = "process_category" /\ Len(unit.ret) = 2) => unit.ret[1] = unit.ret[2]

\* C27: the normalizer keeps, of the first 10 organic results and in the
\* provider's order, every entry that has a title or a link.
C27_OrganicKept ==
    \A ins \in Normalized :
        ins.top_results = SelectSeq(Take(unit.arg[1].organic, 10),
                                    LAMBDA it : HasTitle(it) \/ HasLink(it))

\* the rule of completeness: at least three of the four core fields and at
\* least one of competitors, platforms and tone
CompleteByRule(b) ==
    /\ \E miss \in CoreFields : \A f \in CoreFields \ {miss} : b[f]
    /\ \E f \in {"competitor_names", "preferred_platforms", "tone_and_style"} : b[f]

C25_EngineOfTable ==
    \A c \in Categories :
        hist.engine[c] # "none" => hist.engine[c] = ENGINE_FOR_QUERY_TYPE(c)

\* C26: the report has an analysis for a category exactly when the
\* processed results have an insight for it, and synthesize_all made one LLM
\* call per insight plus the executive summary and the action items.
C26_AnalysisPerInsight ==
    research_report # Null =>
        LET ins == DOMAIN processed_results[1].insights
        IN  /\ DOMAIN research_report[1].analysis = ins
            /\ Len(llm_keys) = Cardinality(ins) + 2

\* C26 witness: a report built from the product insight alone, with three
\* LLM calls and no analysis of the four absent categories.
C26_Witness ==
    /\ research_report # Null
    /\ DOMAIN processed_results[1].insights = {"product"}
    /\ DOMAIN research_report[1].analysis = {"product"}
    /\ Len(llm_keys) = 3

\* C29: in both modes a category whose search returned an error payload or
\* failed in the worker is never among the successful results.
C29_ErrorsNeverSuccessful ==
    DOMAIN successful_results \cap Categories \subseteq RealSuccesses(successful_results)

\* the stored status of the session is st or a later stage of the pipeline
StatusFrom(st) ==
    session.exists /\ session.status \in Range(StatusOrder)
    /\ Rank(session.status) >= Rank(st)

\* C30: the stored artifacts match the stored status: from processing on the
\* raw search results are saved, from synthesizing on the processed results
\* too, with completed the report too, which is saved before the steps that
\* lead to the completed write; and while the status is pending no search
\* has been dispatched.
C30_ArtifactsMatchStatus ==
    /\ StatusFrom("processing") => session.searchResults # Null
    /\ StatusFrom("synthesizing") => session.processedResults # Null
    /\ StatusFrom("completed") => session.report # Null
    /\ pc = "save_resources_used" => session.report # Null
    /\ (session.exists /\ session.status = "pending") =>
          \A c \in Categories : task[c] = NoTask /\ hist.engine[c] = "none"

\* C30 witness: the status is synthesizing, with the search results and the
\* processed results saved and no report yet.
C30_Witness ==
    /\ session.exists /\ session.status = "synthesizing"
    /\ session.searchResults # Null /\ session.processedResults # Null
    /\ session.report = Null

====
